---- MODULE Spec2Model ----
(***************************************************************************)
(* A model of the pegase parser-combinator engine: the parser variants of  *)
(* the Parser class hierarchy, their exec methods, preskip, $commit and    *)
(* Parser.parse.  exec is a depth-first synchronous recursion, so every    *)
(* exec method is a recursive operator that takes the options and the      *)
(* internals and returns the match together with the internals as the      *)
(* method left them.                                                       *)
(***************************************************************************)
EXTENDS Integers, Sequences, FiniteSets, TLC

\* ------------------------------------------------------------------ bounds

\* Longest generated input string.
MaxLen == 3

\* Largest finite min / max of a generated RepetitionParser.
MaxRep == 2

\* Iterations after which a repetition that no longer advances is cut off.
MaxIter == 8

\* The sentinel for "no upper bound" (Infinity): counter === max never holds.
Infinity == 1000

\* ------------------------------------------------------------- characters

\* Input strings are sequences of one-character strings.
Alphabet == {"a", "b", " "}

UpperMap ==
  [a |-> "A", b |-> "B", c |-> "C", e |-> "E", f |-> "F", h |-> "H",
   i |-> "I", n |-> "N", t |-> "T", x |-> "X"]

\* The character U+00DF, the sharp s, under an ASCII name.
SharpS == "sz"

\* String.prototype.toUpperCase on one character: a string, since the upper
\* case of the sharp s is the two characters "SS".
UpperChar(ch) ==
  IF ch = SharpS THEN <<"S", "S">>
  ELSE IF ch \in DOMAIN UpperMap THEN <<UpperMap[ch]>> ELSE <<ch>>

RECURSIVE toUpperCase(_)
toUpperCase(s) ==
  IF s = <<>> THEN <<>> ELSE UpperChar(Head(s)) \o toUpperCase(Tail(s))

Min2(a, b) == IF a < b THEN a ELSE b
Max2(a, b) == IF a < b THEN b ELSE a

\* String.prototype.substring(start, end) with 0-based indices: both indices
\* are clamped to [0, length] and swapped when start > end.
substring(s, start, end) ==
  LET cs == Max2(0, Min2(start, Len(s)))
      ce == Max2(0, Min2(end, Len(s)))
      lo == Min2(cs, ce)
      hi == Max2(cs, ce)
  IN  SubSeq(s, lo + 1, hi)

\* ------------------------------------------------------------------ values

\* Match values: undefined, a string, an array of values.
Undefined == [t |-> "undefined"]
StringValue(s) == [t |-> "string", s |-> s]
ArrayValue(items) == [t |-> "array", items |-> items]
\* An Error object, by the name of its class.
ErrorValue(name) == [t |-> "error", name |-> name]

\* Captures: a map from names to values; Object.create(null) is the empty map.
EmptyCaptures == [k \in {} |-> Undefined]

\* lodash assign / Object.assign of two sources: later writes win.
assign(c1, c2) ==
  [k \in (DOMAIN c1) \cup (DOMAIN c2) |-> IF k \in DOMAIN c2 THEN c2[k] ELSE c1[k]]

RECURSIVE assignAll(_)
assignAll(cs) ==
  IF cs = <<>> THEN EmptyCaptures
  ELSE assign(assignAll(SubSeq(cs, 1, Len(cs) - 1)), cs[Len(cs)])

\* ----------------------------------------------------------------- matches

\* The outcome of exec: a Match, null, or an exception leaving the method.
Match(from, to, value, captures) ==
  [kind |-> "match", from |-> from, to |-> to, value |-> value, captures |-> captures]
Null == [kind |-> "null"]
Thrown(error) == [kind |-> "throw", error |-> error]

IsMatch(m) == m.kind = "match"
IsNull(m) == m.kind = "null"
IsThrown(m) == m.kind = "throw"

\* What an exec method hands back: its return value and the internals.
Ret(m, internals) == [match |-> m, internals |-> internals]

\* ---------------------------------------------------------------- failures

ExpectationFailure(at, expected) ==
  [from |-> at, to |-> at, type |-> "EXPECTATION", expected |-> expected]
SemanticFailure(from, to, message) ==
  [from |-> from, to |-> to, type |-> "SEMANTIC", message |-> message]

LiteralExpectation(literal) == [type |-> "LITERAL", literal |-> literal]
RegExpExpectation(regExp) == [type |-> "REGEXP", regExp |-> regExp]
EdgeExpectation(edge) == [type |-> "EDGE", edge |-> edge]
\* The expectation TokenParser.exec pushes carries the alias only.
TokenExpectation(alias) == [type |-> "TOKEN", alias |-> alias]

RECURSIVE SelectSeq2(_, _)
\* Array.prototype.filter(f => f.from === at)
SelectSeq2(fs, at) ==
  IF fs = <<>> THEN <<>>
  ELSE LET rest == SelectSeq2(Tail(fs), at)
       IN  IF Head(fs).from = at THEN <<Head(fs)>> \o rest ELSE rest

RECURSIVE MaxFrom(_)
MaxFrom(fs) ==
  IF Len(fs) = 1 THEN fs[1].from ELSE Max2(fs[1].from, MaxFrom(Tail(fs)))

RECURSIVE SemanticOnly(_)
SemanticOnly(fs) ==
  IF fs = <<>> THEN <<>>
  ELSE (IF Head(fs).type = "SEMANTIC" THEN <<Head(fs)>> ELSE <<>>)
       \o SemanticOnly(Tail(fs))

RECURSIVE Contains(_, _)
Contains(xs, x) ==
  IF xs = <<>> THEN FALSE ELSE (Head(xs) = x \/ Contains(Tail(xs), x))

RECURSIVE Dedup(_, _)
\* Order-preserving removal of duplicates, keeping first occurrences.
Dedup(xs, seen) ==
  IF xs = <<>> THEN seen
  ELSE Dedup(Tail(xs), IF Contains(seen, Head(xs)) THEN seen ELSE Append(seen, Head(xs)))

RECURSIVE ExpectedOf(_)
\* The concatenation of the expected lists of the Expectation failures.
ExpectedOf(fs) ==
  IF fs = <<>> THEN <<>>
  ELSE (IF Head(fs).type = "EXPECTATION" THEN Head(fs).expected ELSE <<>>)
       \o ExpectedOf(Tail(fs))

\* mergeFailures: nothing for the empty list; otherwise, of the failures at
\* the maximum from, the Semantic ones one by one and the Expectation ones
\* combined into a single failure with the deduplicated expected lists.
mergeFailures(failures) ==
  IF failures = <<>> THEN <<>>
  ELSE LET fmax == MaxFrom(failures)
           kept == SelectSeq2(failures, fmax)
           expected == Dedup(ExpectedOf(kept), <<>>)
       IN  SemanticOnly(kept)
           \o (IF expected = <<>> THEN <<>> ELSE <<ExpectationFailure(fmax, expected)>>)

\* --------------------------------------------------------------- internals

\* Internals: warnings, failures, committedFailures.  TokenParser.exec hands
\* its child a copy of the internals object whose failures is a fresh array
\* while warnings and committedFailures stay the same arrays (part_001:336),
\* so the field failures holds one array per internals object that is
\* live: failures[1] is the array of the object parse created, and the last
\* one is the array of the object the running exec received.
\* calls, commits and pushed are history: one entry per exec that returned,
\* one per $commit call, and the number of failures.push calls so far.
\* events is what the sink options.tracer has received: the Parser class
\* and its exec methods hold no call of options.tracer, so nothing is ever
\* appended to it.
NewInternals ==
  [warnings |-> <<>>, failures |-> <<<<>>>>, committedFailures |-> <<>>,
   calls |-> <<>>, commits |-> <<>>, pushed |-> 0, events |-> <<>>]

\* internals.failures of the running exec.
Failures(internals) == internals.failures[Len(internals.failures)]

\* internals.failures.push(failure)
PushFailure(internals, failure) ==
  [internals EXCEPT !.failures[Len(internals.failures)] = Append(@, failure),
                    !.pushed = @ + 1]

\* { ...internals, failures } with failures = []
WithPrivateFailures(internals) ==
  [internals EXCEPT !.failures = Append(@, <<>>)]

\* Back in the caller of the exec that got the private copy: the copy's
\* failures array is dropped, the shared arrays keep what was pushed.
DropPrivateFailures(internals) ==
  [internals EXCEPT !.failures = SubSeq(@, 1, Len(@) - 1)]

\* $commit (part_001:470-473): push the merge of the pending failures on
\* committedFailures, then assign a fresh array to internals.failures.
Commit(internals) ==
  LET pending == Failures(internals)
      after == [internals EXCEPT
                  !.committedFailures = Append(@, mergeFailures(pending)),
                  !.failures[Len(internals.failures)] = <<>>]
  IN  [after EXCEPT !.commits = Append(@,
         [pending |-> pending,
          depth |-> Len(internals.failures),
          committedBefore |-> internals.committedFailures,
          committedAfter |-> after.committedFailures,
          parseFailuresBefore |-> internals.failures[1],
          parseFailuresAfter |-> after.failures[1]])]

\* $warn(message) (part_001:474-476)
Warn(internals, match, message) ==
  [internals EXCEPT !.warnings =
     Append(@, [from |-> match.from, to |-> match.to, message |-> message])]

\* ----------------------------------------------------------------- parsers

\* The parser variants, as the fields their constructors set.
LiteralParser(literal, emit) == [type |-> "Literal", literal |-> literal, emit |-> emit]
RegExpParser(regExp) == [type |-> "RegExp", regExp |-> regExp]
StartEdgeParser == [type |-> "StartEdge", edge |-> "START"]
EndEdgeParser == [type |-> "EndEdge", edge |-> "END"]
ReferenceParser(label) == [type |-> "Reference", label |-> label]
OptionParser(parsers) == [type |-> "Option", parsers |-> parsers]
SequenceParser(parsers) == [type |-> "Sequence", parsers |-> parsers]
\* rules is the Map in insertion order, a sequence of [label, parser]; the
\* delegate is rules.values().next().value, the first rule.
GrammarParser(rules) == [type |-> "Grammar", parser |-> rules[1].parser, rules |-> rules]
TokenParser(parser, alias) == [type |-> "Token", parser |-> parser, alias |-> alias]
RepetitionParser(parser, min, max) ==
  [type |-> "Repetition", parser |-> parser, min |-> min, max |-> max]
OptionMergeParser(parser, options) ==
  [type |-> "OptionMerge", parser |-> parser, options |-> options]
CaptureParser(parser, name) == [type |-> "Capture", parser |-> parser, name |-> name]
ActionParser(parser, action) == [type |-> "Action", parser |-> parser, action |-> action]

\* undefined where a parser or a grammar is expected.
NoParser == [type |-> "undefined"]

Rule(label, parser) == [label |-> label, parser |-> parser]

RECURSIVE RulesGet(_, _)
\* Map.prototype.get
RulesGet(rules, label) ==
  IF rules = <<>> THEN NoParser
  ELSE IF Head(rules).label = label THEN Head(rules).parser
  ELSE RulesGet(Tail(rules), label)

\* The regular expressions of the model, by source text.
ReSpaces == "\\s*"
ReAny == "."

\* Global parsers (part_001:494-495)
spaces == RegExpParser(ReSpaces)
any == RegExpParser(ReAny)

WhiteSpace == {" "}

RECURSIVE SpaceRun(_, _)
\* How many white-space characters input holds from the 0-based index at.
SpaceRun(input, at) ==
  IF at < Len(input) /\ input[at + 1] \in WhiteSpace
  THEN 1 + SpaceRun(input, at + 1) ELSE 0

\* RegExp.prototype.exec of a sticky regular expression with lastIndex set:
\* the length of result[0], or -1 for null.  A sticky expression matches at
\* lastIndex only, and never when lastIndex is beyond the input.
RegExpExec(regExp, input, lastIndex) ==
  IF lastIndex > Len(input) THEN -1
  ELSE IF regExp = ReSpaces THEN SpaceRun(input, lastIndex)
  ELSE IF lastIndex < Len(input) THEN 1 ELSE -1

\* A semantic action: the hooks it calls in order, then how it ends: it
\* returns value, throws an Error with message value, or throws value.
SemanticAction(hooks, outcome, value) ==
  [hooks |-> hooks, outcome |-> outcome, value |-> value]

\* ----------------------------------------------------------------- options

\* { ...options, ...overrides }
Spread(options, overrides) ==
  [k \in (DOMAIN options) \cup (DOMAIN overrides) |->
     IF k \in DOMAIN overrides THEN overrides[k] ELSE options[k]]

\* fullOptions of Parser.parse (part_001:27-35) before the caller's overrides.
DefaultOptions(input) ==
  [input |-> input, from |-> 0, skipper |-> spaces, skip |-> TRUE,
   ignoreCase |-> FALSE, context |-> Undefined, grammar |-> NoParser]

\* -------------------------------------------------------------------- exec

RECURSIVE exec(_, _, _)
RECURSIVE SequenceLoop(_, _, _, _, _, _)
RECURSIVE OptionLoop(_, _, _, _)
RECURSIVE RepetitionLoop(_, _, _, _, _, _)

NullCursor == -1

\* A preskip that never consults the skipper.
preskip_NoSkip(options, internals) ==
  [cursor |-> options.from, thrown |-> Null, internals |-> internals]

\* preskip: options.from when skipping is off or there is no skipper, else
\* the end of the skipper's match at options.from with skip forced to false,
\* or null when the skipper fails.  thrown is the exception leaving the
\* skipper, if any.
preskip(options, internals) ==
  IF ~options.skip \/ options.skipper.type = "undefined"
  THEN [cursor |-> options.from, thrown |-> Null, internals |-> internals]
  ELSE LET r == exec(options.skipper, [options EXCEPT !.skip = FALSE], internals)
       IN  [cursor |-> IF IsMatch(r.match) THEN r.match.to ELSE NullCursor,
            thrown |-> IF IsMatch(r.match) THEN Null ELSE r.match,
            internals |-> r.internals]

\* What exec returns when preskip gave no cursor: null, or the exception.
NoCursor(ps) == Ret(ps.thrown, ps.internals)

\* LiteralParser.exec that compares exactly whatever options.ignoreCase is.
LiteralParser_exec_ExactCase(p, options, internals) ==
  LET ps == preskip(options, internals)
      cursor == ps.cursor
      to == cursor + Len(p.literal)
      raw == substring(options.input, cursor, to)
  IN  IF cursor = NullCursor THEN NoCursor(ps)
      ELSE IF p.literal = raw
      THEN Ret(Match(cursor, to, IF p.emit THEN StringValue(raw) ELSE Undefined,
                     EmptyCaptures), ps.internals)
      ELSE Ret(Null, PushFailure(ps.internals,
                 ExpectationFailure(cursor, <<LiteralExpectation(p.literal)>>)))

\* LiteralParser.exec that compares nothing: the literal's length decides.
LiteralParser_exec_NoCompare(p, options, internals) ==
  LET ps == preskip(options, internals)
      cursor == ps.cursor
      to == cursor + Len(p.literal)
  IN  IF cursor = NullCursor THEN NoCursor(ps)
      ELSE Ret(Match(cursor, to, Undefined, EmptyCaptures), ps.internals)

LiteralParser_exec(p, options, internals) ==
  LET ps == preskip(options, internals)
      cursor == ps.cursor
      to == cursor + Len(p.literal)
      raw == substring(options.input, cursor, to)
      result == IF options.ignoreCase
                THEN toUpperCase(p.literal) = toUpperCase(raw)
                ELSE p.literal = raw
  IN  IF cursor = NullCursor THEN NoCursor(ps)
      ELSE IF result
      THEN Ret(Match(cursor, to, IF p.emit THEN StringValue(raw) ELSE Undefined,
                     EmptyCaptures), ps.internals)
      ELSE Ret(Null, PushFailure(ps.internals,
                 ExpectationFailure(cursor, <<LiteralExpectation(p.literal)>>)))

RegExpParser_exec(p, options, internals) ==
  LET ps == preskip(options, internals)
      cursor == ps.cursor
      result == RegExpExec(p.regExp, options.input, cursor)
  IN  IF cursor = NullCursor THEN NoCursor(ps)
      ELSE IF result # -1
      THEN Ret(Match(cursor, cursor + result,
                     StringValue(substring(options.input, cursor, cursor + result)),
                     EmptyCaptures), ps.internals)
      ELSE Ret(Null, PushFailure(ps.internals,
                 ExpectationFailure(cursor, <<RegExpExpectation(p.regExp)>>)))

\* StartEdgeParser.exec that fails without recording why.
StartEdgeParser_exec_Silent(p, options, internals) ==
  IF options.from = 0
  THEN Ret(Match(0, 0, Undefined, EmptyCaptures), internals)
  ELSE Ret(Null, internals)

StartEdgeParser_exec(p, options, internals) ==
  IF options.from = 0
  THEN Ret(Match(0, 0, Undefined, EmptyCaptures), internals)
  ELSE Ret(Null, PushFailure(internals,
             ExpectationFailure(options.from, <<EdgeExpectation("START")>>)))

\* EndEdgeParser.exec that tests options.from, without preskip.
EndEdgeParser_exec_NoPreskip(p, options, internals) ==
  IF options.from = Len(options.input)
  THEN Ret(Match(options.from, options.from, Undefined, EmptyCaptures), internals)
  ELSE Ret(Null, PushFailure(internals,
             ExpectationFailure(options.from, <<EdgeExpectation("END")>>)))

EndEdgeParser_exec(p, options, internals) ==
  LET ps == preskip(options, internals)
      cursor == ps.cursor
  IN  IF cursor = NullCursor THEN NoCursor(ps)
      ELSE IF cursor = Len(options.input)
      THEN Ret(Match(cursor, cursor, Undefined, EmptyCaptures), ps.internals)
      ELSE Ret(Null, PushFailure(ps.internals,
                 ExpectationFailure(cursor, <<EdgeExpectation("END")>>)))

ReferenceParser_exec(p, options, internals) ==
  LET parser == IF options.grammar.type = "undefined" THEN NoParser
                ELSE RulesGet(options.grammar.rules, p.label)
      r == exec(parser, options, internals)
  IN  IF parser.type = "undefined" THEN Ret(Thrown(ErrorValue("Error")), internals)
      ELSE IF ~IsMatch(r.match) THEN r
      ELSE Ret([r.match EXCEPT !.captures =
                  assign(EmptyCaptures, [k \in {p.label} |-> r.match.value])],
               r.internals)

RECURSIVE OptionLast(_, _, _, _, _)
OptionLast(parsers, k, options, internals, best) ==
  IF k > Len(parsers) THEN Ret(best, internals)
  ELSE LET r == exec(parsers[k], options, internals)
       IN  OptionLast(parsers, k + 1, options, r.internals,
                      IF IsMatch(r.match) THEN r.match ELSE best)

\* An ordered choice that tries every alternative and keeps the last match.
OptionLoop_LastWins(parsers, k, options, internals) ==
  OptionLast(parsers, k, options, internals, Null)

OptionLoop(parsers, k, options, internals) ==
  IF k > Len(parsers) THEN Ret(Null, internals)
  ELSE LET r == exec(parsers[k], options, internals)
       IN  IF ~IsNull(r.match) THEN r
           ELSE OptionLoop(parsers, k + 1, options, r.internals)

OptionParser_exec(p, options, internals) ==
  OptionLoop(p.parsers, 1, options, internals)

RECURSIVE DefinedValues(_)
\* matches.map(match => match.value).filter(value => value !== undefined)
DefinedValues(matches) ==
  IF matches = <<>> THEN <<>>
  ELSE (IF Head(matches).value = Undefined THEN <<>> ELSE <<Head(matches).value>>)
       \o DefinedValues(Tail(matches))

Values(matches) == [k \in 1..Len(matches) |-> matches[k].value]
CapturesOf(matches) == [k \in 1..Len(matches) |-> matches[k].captures]

\* A sequence whose match ends where its first child's match ends.
SequenceLoop_FirstTo(parsers, k, options, from, matches, internals) ==
  IF k > Len(parsers)
  THEN IF matches = <<>> THEN Ret(Thrown(ErrorValue("TypeError")), internals)
       ELSE Ret(Match(matches[1].from, matches[1].to,
                      ArrayValue(DefinedValues(matches)),
                      assignAll(CapturesOf(matches))), internals)
  ELSE LET r == exec(parsers[k], [options EXCEPT !.from = from], internals)
       IN  IF ~IsMatch(r.match) THEN r
           ELSE SequenceLoop(parsers, k + 1, options, r.match.to,
                             Append(matches, r.match), r.internals)

SequenceLoop(parsers, k, options, from, matches, internals) ==
  IF k > Len(parsers)
  THEN IF matches = <<>> THEN Ret(Thrown(ErrorValue("TypeError")), internals)
       ELSE Ret(Match(matches[1].from, from, ArrayValue(DefinedValues(matches)),
                      assignAll(CapturesOf(matches))), internals)
  ELSE LET r == exec(parsers[k], [options EXCEPT !.from = from], internals)
       IN  IF ~IsMatch(r.match) THEN r
           ELSE SequenceLoop(parsers, k + 1, options, r.match.to,
                             Append(matches, r.match), r.internals)

SequenceParser_exec(p, options, internals) ==
  SequenceLoop(p.parsers, 1, options, options.from, <<>>, internals)

GrammarParser_exec(p, options, internals) ==
  exec(p.parser, options, internals)

\* TokenParser.exec that leaves options.skip as it received it.
TokenParser_exec_KeepSkip(p, options, internals) ==
  LET ps == preskip(options, internals)
      cursor == ps.cursor
      r == exec(p.parser, [options EXCEPT !.from = cursor],
                WithPrivateFailures(ps.internals))
      mine == DropPrivateFailures(r.internals)
  IN  IF cursor = NullCursor THEN NoCursor(ps)
      ELSE IF ~IsNull(r.match) THEN Ret(r.match, mine)
      ELSE Ret(Null, PushFailure(mine,
                 ExpectationFailure(cursor, <<TokenExpectation(p.alias)>>)))

TokenParser_exec(p, options, internals) ==
  LET ps == preskip(options, internals)
      cursor == ps.cursor
      r == exec(p.parser, [options EXCEPT !.from = cursor, !.skip = FALSE],
                WithPrivateFailures(ps.internals))
      mine == DropPrivateFailures(r.internals)
  IN  IF cursor = NullCursor THEN NoCursor(ps)
      ELSE IF ~IsNull(r.match) THEN Ret(r.match, mine)
      ELSE Ret(Null, PushFailure(mine,
                 ExpectationFailure(cursor, <<TokenExpectation(p.alias)>>)))

\* success() of RepetitionParser.exec (part_001:372-381)
RepetitionSuccess(options, matches) ==
  Match(IF matches = <<>> THEN options.from ELSE matches[1].from,
        IF matches = <<>> THEN options.from ELSE matches[Len(matches)].to,
        ArrayValue(Values(matches)), assignAll(CapturesOf(matches)))

\* A repetition that stops as soon as min matches are in.
RepetitionLoop_Lazy(p, options, from, counter, matches, internals) ==
  IF counter = p.max \/ counter >= p.min
  THEN Ret(RepetitionSuccess(options, matches), internals)
  ELSE LET r == exec(p.parser, [options EXCEPT !.from = from], internals)
       IN  IF IsMatch(r.match)
           THEN RepetitionLoop(p, options, r.match.to, counter + 1,
                               Append(matches, r.match), r.internals)
           ELSE r

\* A repetition that never tests counter === max.
RepetitionLoop_NoMax(p, options, from, counter, matches, internals) ==
  IF counter >= MaxIter THEN Ret([kind |-> "diverge"], internals)
  ELSE LET r == exec(p.parser, [options EXCEPT !.from = from], internals)
       IN  IF IsMatch(r.match)
           THEN RepetitionLoop(p, options, r.match.to, counter + 1,
                               Append(matches, r.match), r.internals)
           ELSE IF ~IsNull(r.match) THEN r
           ELSE IF counter < p.min THEN Ret(Null, r.internals)
           ELSE Ret(RepetitionSuccess(options, matches), r.internals)

\* The while (true) loop; a loop that ran MaxIter times without ending is
\* reported as running forever.
RepetitionLoop(p, options, from, counter, matches, internals) ==
  IF counter = p.max THEN Ret(RepetitionSuccess(options, matches), internals)
  ELSE IF counter >= MaxIter THEN Ret([kind |-> "diverge"], internals)
  ELSE LET r == exec(p.parser, [options EXCEPT !.from = from], internals)
       IN  IF IsMatch(r.match)
           THEN RepetitionLoop(p, options, r.match.to, counter + 1,
                               Append(matches, r.match), r.internals)
           ELSE IF ~IsNull(r.match) THEN r
           ELSE IF counter < p.min THEN Ret(Null, r.internals)
           ELSE Ret(RepetitionSuccess(options, matches), r.internals)

RepetitionParser_exec(p, options, internals) ==
  RepetitionLoop(p, options, options.from, 0, <<>>, internals)

OptionMergeParser_exec(p, options, internals) ==
  exec(p.parser, Spread(options, p.options), internals)

CaptureParser_exec(p, options, internals) ==
  LET r == exec(p.parser, options, internals)
  IN  IF ~IsMatch(r.match) THEN r
      ELSE Ret([r.match EXCEPT !.captures =
                  assign(r.match.captures, [k \in {p.name} |-> r.match.value])],
               r.internals)

RECURSIVE CallHooks(_, _, _)
\* The $commit and $warn calls of an action body, in order.
CallHooks(hooks, match, internals) ==
  IF hooks = <<>> THEN internals
  ELSE CallHooks(Tail(hooks), match,
                 IF Head(hooks) = "$commit" THEN Commit(internals)
                 ELSE Warn(internals, match, "warning"))

\* ActionParser.exec whose catch clause turns whatever was thrown into a
\* Semantic failure.
ActionParser_exec_CatchAll(p, options, internals) ==
  LET r == exec(p.parser, options, internals)
      called == CallHooks(p.action.hooks, r.match, r.internals)
  IN  IF ~IsMatch(r.match) THEN r
      ELSE IF p.action.outcome = "return"
      THEN Ret([r.match EXCEPT !.value = p.action.value], called)
      ELSE Ret(Null, PushFailure(called,
                 SemanticFailure(r.match.from, r.match.to, p.action.value)))

ActionParser_exec(p, options, internals) ==
  LET r == exec(p.parser, options, internals)
      called == CallHooks(p.action.hooks, r.match, r.internals)
  IN  IF ~IsMatch(r.match) THEN r
      ELSE IF p.action.outcome = "return"
      THEN Ret([r.match EXCEPT !.value = p.action.value], called)
      ELSE IF p.action.outcome = "throw"
      THEN Ret(Thrown(p.action.value), called)
      ELSE Ret(Null, PushFailure(called,
                 SemanticFailure(r.match.from, r.match.to, p.action.value)))

\* One entry of internals.calls: the parser, the options it received, how
\* many internals copies were live (one more per enclosing token body), how
\* many failures had been pushed when exec was entered and when it came
\* back, and what exec returned.
Call(p, options, internals, after, m) ==
  [type |-> p.type, from |-> options.from, skip |-> options.skip,
   depth |-> Len(internals.failures), pushedBefore |-> internals.pushed,
   pushedAfter |-> after.pushed, match |-> m]

\* The dynamic dispatch of parser.exec(options, internals).
Dispatch(p, options, internals) ==
  CASE p.type = "Literal" -> LiteralParser_exec(p, options, internals)
    [] p.type = "RegExp" -> RegExpParser_exec(p, options, internals)
    [] p.type = "StartEdge" -> StartEdgeParser_exec(p, options, internals)
    [] p.type = "EndEdge" -> EndEdgeParser_exec(p, options, internals)
    [] p.type = "Reference" -> ReferenceParser_exec(p, options, internals)
    [] p.type = "Option" -> OptionParser_exec(p, options, internals)
    [] p.type = "Sequence" -> SequenceParser_exec(p, options, internals)
    [] p.type = "Grammar" -> GrammarParser_exec(p, options, internals)
    [] p.type = "Token" -> TokenParser_exec(p, options, internals)
    [] p.type = "Repetition" -> RepetitionParser_exec(p, options, internals)
    [] p.type = "OptionMerge" -> OptionMergeParser_exec(p, options, internals)
    [] p.type = "Capture" -> CaptureParser_exec(p, options, internals)
    [] p.type = "Action" -> ActionParser_exec(p, options, internals)

exec(p, options, internals) ==
  LET r == Dispatch(p, options, internals)
  IN  Ret(r.match,
          [r.internals EXCEPT !.calls = Append(@, Call(p, options, internals, r.internals, r.match))])

\* ------------------------------------------------------------------ inputs

RECURSIVE StringsOver(_, _)
\* All strings over chars of length at most n.
StringsOver(chars, n) ==
  IF n = 0 THEN {<<>>}
  ELSE LET shorter == StringsOver(chars, n - 1)
       IN  shorter \cup {Append(w, ch) : w \in shorter, ch \in chars}

\* The inputs of the end-to-end scenarios.
ScenarioInputs ==
  {<<"i", "f", " ", "x">>, <<"a", "a", "a", "a">>, <<" ", "a", "b", " ">>,
   <<"A", "b", "C">>, <<" ", "A">>, <<"a", "B">>, <<SharpS>>, <<"a", SharpS>>}

Inputs == StringsOver(Alphabet, MaxLen) \cup ScenarioInputs

\* ---------------------------------------------------------------- grammars

A == LiteralParser(<<"a">>, TRUE)
B == LiteralParser(<<"b">>, TRUE)
AB == SequenceParser(<<A, B>>)

CommitAction == SemanticAction(<<"$commit">>, "return", Undefined)
ValueAction == SemanticAction(<<>>, "return", StringValue(<<"v">>))
WarnAction == SemanticAction(<<"$warn">>, "return", Undefined)
ErrorAction == SemanticAction(<<>>, "error", StringValue(<<"m">>))
ThrowAction == SemanticAction(<<>>, "throw", StringValue(<<"t">>))
WarnErrorAction == SemanticAction(<<"$warn">>, "error", StringValue(<<"m">>))

\* 'if' $commit 'then'
IfThen ==
  SequenceParser(<<ActionParser(LiteralParser(<<"i", "f">>, FALSE), CommitAction),
                   LiteralParser(<<"t", "h", "e", "n">>, FALSE)>>)

\* x: 'a' x?
RecursiveX ==
  GrammarParser(<<Rule("x",
    SequenceParser(<<A, RepetitionParser(ReferenceParser("x"), 0, 1)>>))>>)

\* r: <c>'a' s    s: <d>'b'?
TwoRules ==
  GrammarParser(<<
    Rule("r", SequenceParser(<<CaptureParser(A, "c"), ReferenceParser("s")>>)),
    Rule("s", RepetitionParser(CaptureParser(B, "d"), 0, 1))>>)

\* A rule whose capture has the rule's own label.
ClashRule ==
  GrammarParser(<<
    Rule("r", ReferenceParser("s")),
    Rule("s", SequenceParser(<<CaptureParser(A, "s"), CaptureParser(B, "d")>>))>>)

ABC == LiteralParser(<<"a", "b", "c">>, TRUE)
SS == LiteralParser(<<"S", "S">>, TRUE)

Leaves ==
  {A, B, StartEdgeParser, EndEdgeParser, any, ABC, SS,
   LiteralParser(<<"a">>, FALSE), LiteralParser(<<>>, TRUE)}

\* The children the combinators are generated over.
Children ==
  {A, B, AB, EndEdgeParser,
   ActionParser(A, CommitAction),
   TokenParser(AB, "ab")}

Repetitions ==
  {RepetitionParser(p, min, max) :
     p \in {A, AB, OptionParser(<<A, B>>)},
     min \in 0..MaxRep, max \in (0..MaxRep) \cup {Infinity}}

Options2 == {OptionParser(<<p, q>>) : p \in Children, q \in Children}

Sequences2 == {SequenceParser(<<p, q>>) : p \in {A, B, StartEdgeParser}, q \in Children}

Delegates ==
  {TokenParser(A, "a"),
   TokenParser(OptionParser(<<AB, A>>), "ab or a"),
   TokenParser(ActionParser(A, CommitAction), "a!"),
   SequenceParser(<<OptionParser(<<B, TokenParser(ActionParser(A, CommitAction), "a!")>>), B>>),
   SequenceParser(<<OptionParser(<<B, ActionParser(A, CommitAction)>>), B>>),
   TokenParser(OptionMergeParser(AB, [skip |-> TRUE]), "a b"),
   TokenParser(OptionMergeParser(AB, [ignoreCase |-> TRUE]), "AB"),
   OptionParser(<<B, AB, A>>),
   OptionParser(<<>>),
   SequenceParser(<<A, OptionParser(<<>>)>>),
   OptionParser(<<StartEdgeParser, B>>),
   SequenceParser(<<OptionMergeParser(A, [skip |-> TRUE]), TokenParser(AB, "ab")>>),
   RepetitionParser(EndEdgeParser, 0, Infinity),
   RepetitionParser(SS, 0, Infinity),
   RepetitionParser(OptionMergeParser(A, [from |-> 0]), 0, Infinity),
   RepetitionParser(A, 0, -1),
   TokenParser(SequenceParser(<<A, TokenParser(B, "b")>>), "ab"),
   OptionMergeParser(AB, [skip |-> FALSE]),
   OptionMergeParser(AB, [skipper |-> B]),
   OptionMergeParser(A, [skipper |-> B]),
   OptionMergeParser(any, [skipper |-> A]),
   OptionMergeParser(EndEdgeParser, [skipper |-> any]),
   OptionMergeParser(TokenParser(AB, "ab"), [skipper |-> B]),
   SequenceParser(<<A, OptionMergeParser(A, [from |-> 0])>>),
   CaptureParser(AB, "c"),
   SequenceParser(<<CaptureParser(A, "c"), CaptureParser(B, "c")>>),
   ActionParser(AB, ValueAction),
   ActionParser(A, WarnAction),
   OptionParser(<<ActionParser(A, ErrorAction), AB>>),
   ActionParser(A, ThrowAction),
   ActionParser(A, ErrorAction),
   ActionParser(CaptureParser(AB, "c"), ErrorAction),
   ActionParser(A, WarnErrorAction),
   RepetitionParser(A, 2, 3),
   SequenceParser(<<A, ReferenceParser("x")>>),
   IfThen, RecursiveX, TwoRules, ClashRule}

\* The two groupings of a sequence of three parsers.
LeftSequence(a, b, c) == SequenceParser(<<SequenceParser(<<a, b>>), c>>)
RightSequence(a, b, c) == SequenceParser(<<a, SequenceParser(<<b, c>>)>>)

\* The parsers the sequences of three are generated over.
Thirds ==
  {CaptureParser(A, "c"), LiteralParser(<<"b">>, FALSE), CaptureParser(B, "c"),
   RepetitionParser(A, 0, 1)}

Sequences3 == {LeftSequence(a, b, c) : a \in Thirds, b \in Thirds, c \in Thirds}

Parsers ==
  Leaves \cup Repetitions \cup Options2 \cup Sequences2 \cup Sequences3 \cup Delegates

\* The options a caller passes to parse: none, or one override; tracer is
\* the optional sink of trace events (types.ts:43), TRUE when one is passed,
\* which the leaves and the hand-written grammars are parsed with.
NoOverrides == [k \in {} |-> FALSE]

Overrides(p) ==
  {NoOverrides, [skip |-> FALSE], [from |-> 1], [ignoreCase |-> TRUE]}
  \cup (IF p \in Leaves \cup Delegates THEN {[tracer |-> TRUE]} ELSE {})
  \cup (IF p.type = "Grammar" THEN {[grammar |-> p]} ELSE {})

\* ----------------------------------------------------------- state machine

VARIABLES
  parser,     \* the parser tree parse is called on
  input,      \* the input string of the call
  overrides,  \* the options the caller passes
  pc,         \* "called", then how the parse call ended
  options,    \* fullOptions, as exec received them
  internals,  \* the internals when exec came back
  match,      \* what exec returned
  result      \* the Result parse returned

vars == <<parser, input, overrides, pc, options, internals, match, result>>

NoResult == [success |-> FALSE, none |-> TRUE]

Init ==
  /\ parser \in Parsers
  /\ input \in Inputs
  /\ overrides \in Overrides(parser)
  /\ pc = "called"
  /\ options = DefaultOptions(input)
  /\ internals = NewInternals
  /\ match = Null
  /\ result = NoResult

\* The Result of Parser.parse (part_001:42-58).
Result(fullOptions, m, ints) ==
  LET warnings == ints.warnings
      failures == Append(ints.committedFailures, mergeFailures(ints.failures[1]))
  IN  IF ~IsMatch(m)
      THEN [success |-> FALSE, warnings |-> warnings, failures |-> failures]
      ELSE [success |-> TRUE, warnings |-> warnings, failures |-> failures,
            from |-> m.from, to |-> m.to, value |-> m.value, captures |-> m.captures,
            raw |-> substring(fullOptions.input, m.from, m.to)]

\* Parser.parse(input, overrides)
parse ==
  LET fullOptions == Spread(DefaultOptions(input), overrides)
      r == exec(parser, fullOptions, NewInternals)
  IN  /\ pc = "called"
      /\ options' = fullOptions
      /\ internals' = r.internals
      /\ match' = r.match
      /\ pc' = IF IsMatch(r.match) \/ IsNull(r.match) THEN "returned"
               ELSE IF IsThrown(r.match) THEN "threw" ELSE "diverged"
      /\ result' = IF IsMatch(r.match) \/ IsNull(r.match)
                   THEN Result(fullOptions, r.match, r.internals) ELSE NoResult
      /\ UNCHANGED <<parser, input, overrides>>

Next == parse

Spec == Init /\ [][Next]_vars

\* ------------------------------------------------------------------ claims

\* The parsers a parser holds: its children, its rules, a skipper it sets.
SubParsers(p) ==
  CASE p.type \in {"Option", "Sequence"} -> {p.parsers[k] : k \in 1..Len(p.parsers)}
    [] p.type = "Grammar" -> {p.rules[k].parser : k \in 1..Len(p.rules)}
    [] p.type \in {"Token", "Repetition", "Capture", "Action"} -> {p.parser}
    [] p.type = "OptionMerge" ->
         {p.parser} \cup (IF "skipper" \in DOMAIN p.options THEN {p.options.skipper} ELSE {})
    [] OTHER -> {}

RECURSIVE MergesOption(_, _)
\* Some OptionMerge node of the tree overrides the option key.
MergesOption(p, key) ==
  \/ p.type = "OptionMerge" /\ key \in DOMAIN p.options
  \/ \E q \in SubParsers(p) : MergesOption(q, key)

\* A call entry whose match lies in [options.from, |input|].
RangeOK(c) ==
  IsMatch(c.match) =>
    /\ c.from <= c.match.from
    /\ c.match.from <= c.match.to
    /\ c.match.to <= Len(input)

\* C1: every match any exec returned, for every grammar and every call,
\* satisfies options.from <= from <= to <= |input|.
C1_RangeMonotonicity_Original ==
  \A k \in 1..Len(internals.calls) : RangeOK(internals.calls[k])

\* Where the range property does hold: in a grammar where no OptionMerge
\* node overrides from or input, for a parse call that starts inside the
\* input (options.from <= |input|) and never compares with ignoreCase on,
\* every match any exec returned satisfies
\* options.from <= from <= to <= |input|.
C1_RangeMonotonicity ==
  (/\ ~MergesOption(parser, "from")
   /\ ~MergesOption(parser, "input")
   /\ ~MergesOption(parser, "ignoreCase")
   /\ ~options.ignoreCase
   /\ options.from <= Len(input))
  => \A k \in 1..Len(internals.calls) : RangeOK(internals.calls[k])

\* A parse from cursor 1 whose match starts later, after skipped input, and
\* is not empty.
C1_Witness ==
  /\ pc = "returned"
  /\ ~MergesOption(parser, "from")
  /\ options.from = 1
  /\ IsMatch(match)
  /\ match.from > options.from
  /\ match.to > match.from

\* What q returns when it alone is run with the options of the parse call.
Alone(q) == exec(q, options, NewInternals)

RECURSIVE CallsOfFirst(_, _)
\* How many exec calls running each of the first n parsers alone makes.
CallsOfFirst(parsers, n) ==
  IF n = 0 THEN 0
  ELSE CallsOfFirst(parsers, n - 1) + Len(Alone(parsers[n]).internals.calls)

\* C2: an OptionParser returns what its first child that does not return
\* null returns, run with the options the OptionParser received, and null
\* when every child returns null; the exec calls made are those of the
\* children up to that first one, so no later child is invoked.
C2_OrderedChoice ==
  (pc # "called" /\ parser.type = "Option") =>
    LET kids == parser.parsers
        won == {k \in 1..Len(kids) : ~IsNull(Alone(kids[k]).match)}
        first == CHOOSE k \in won : \A j \in won : k <= j
    IN  IF won = {}
        THEN /\ IsNull(match)
             /\ Len(internals.calls) = 1 + CallsOfFirst(kids, Len(kids))
        ELSE /\ match = Alone(kids[first]).match
             /\ Len(internals.calls) = 1 + CallsOfFirst(kids, first)

\* 'a' 'b' | 'a' on "a": the first alternative consumes "a" and fails, the
\* second one matches from the cursor the choice started at.
C2_Witness ==
  /\ pc = "returned"
  /\ parser = OptionParser(<<AB, A>>)
  /\ input = <<"a">>
  /\ overrides = NoOverrides
  /\ IsMatch(match)
  /\ match.from = 0
  /\ match.to = 1

RECURSIVE Chain(_, _, _)
\* The matches of the child q matched up to n consecutive times, each time
\* from the end of the match before, starting at the cursor from.
Chain(q, from, n) ==
  IF n = 0 THEN <<>>
  ELSE LET r == exec(q, [options EXCEPT !.from = from], NewInternals)
       IN  IF IsMatch(r.match)
           THEN <<r.match>> \o Chain(q, r.match.to, n - 1) ELSE <<>>

\* The child can be matched k consecutive times.
CanRepeat(q, k) == Len(Chain(q, options.from, k)) = k

\* The k worth trying: a child match of the generated children consumes
\* at least one character, so no chain is longer than the input.
Counts(p) == {k \in 0..(Len(input) + 1) : p.min <= k /\ k <= p.max}

\* Repetition bounds, for the repetition the parse call ran.
RepetitionBounds(p) ==
  LET ks == {k \in Counts(p) : CanRepeat(p.parser, k)}
      most == CHOOSE k \in ks : \A j \in ks : j <= k
      ms == Chain(p.parser, options.from, most)
  IN  /\ IsMatch(match) <=> ks # {}
      /\ IsMatch(match) =>
           /\ match.value = ArrayValue(Values(ms))
           /\ match.from = (IF ms = <<>> THEN options.from ELSE ms[1].from)
           /\ match.to = (IF ms = <<>> THEN options.from ELSE ms[Len(ms)].to)

\* C3 as stated: for all bounds min and max, Repetition(p, min, max)
\* succeeds iff p matches k consecutive times for some min <= k <= max, and
\* then holds exactly the maximal such k child matches.
C3_RepetitionBounds_Original ==
  (pc = "returned" /\ parser.type = "Repetition") => RepetitionBounds(parser)

\* C3, amended: the same for all bounds with min <= max.
C3_RepetitionBounds ==
  (pc = "returned" /\ parser.type = "Repetition" /\ parser.min <= parser.max)
  => RepetitionBounds(parser)

\* Repetition('a', 2, 3) on "aaaa" succeeds with to = 3.
C3_Witness ==
  /\ pc = "returned"
  /\ parser = RepetitionParser(A, 2, 3)
  /\ input = <<"a", "a", "a", "a">>
  /\ overrides = NoOverrides
  /\ IsMatch(match)
  /\ match.to = 3
  /\ Len(match.value.items) = 3

RECURSIVE Flatten(_)
\* The failures of a list of mergeFailures results, in order.
Flatten(lists) ==
  IF lists = <<>> THEN <<>> ELSE Head(lists) \o Flatten(Tail(lists))

IsPrefix(xs, ys) == Len(xs) <= Len(ys) /\ SubSeq(ys, 1, Len(xs)) = xs

\* What one $commit call did, against what C4 says of it.
CommitOK(c) ==
  /\ c.parseFailuresAfter = <<>>
  /\ Flatten(c.committedAfter)
       = Flatten(c.committedBefore) \o mergeFailures(c.parseFailuresBefore)
  /\ (c.parseFailuresBefore = <<>> => Len(c.committedAfter) = Len(c.committedBefore))
  /\ IsPrefix(c.committedAfter, internals.committedFailures)

\* C4: every $commit call, wherever the action sits in the tree, leaves the
\* parse call's internals.failures empty and committedFailures equal to
\* what it held followed by the merge of the failures that were pending
\* (nothing appended when none were), and what was committed stays.
C4_Commit ==
  \A k \in 1..Len(internals.commits) : CommitOK(internals.commits[k])

\* The failure list fs holds an expectation of the literal at the position.
ExpectsLiteral(fs, literal, at) ==
  \E k \in 1..Len(fs) :
    /\ fs[k].type = "EXPECTATION"
    /\ fs[k].from = at
    /\ \E e \in 1..Len(fs[k].expected) : fs[k].expected[e] = LiteralExpectation(literal)

If == <<"i", "f">>
Then == <<"t", "h", "e", "n">>

\* 'if' $commit 'then' parsed on "if x" with the default options.
CutScenario ==
  /\ pc # "called"
  /\ parser = IfThen
  /\ input = <<"i", "f", " ", "x">>
  /\ overrides = NoOverrides

\* C5 as stated: the parse fails, committedFailures contains the
\* Literal("then") expectation at position 3, and the uncommitted failures
\* hold no Literal("if") expectation.
C5_CutScenario_Original ==
  CutScenario =>
    /\ pc = "returned"
    /\ ~result.success
    /\ ExpectsLiteral(Flatten(internals.committedFailures), Then, 3)
    /\ \A at \in 0..Len(input) : ~ExpectsLiteral(internals.failures[1], If, at)

\* C5, amended: the parse fails, the Literal("then") expectation at
\* position 3 is among the uncommitted failures and so in the Result's
\* failures, committedFailures does not contain it, and the uncommitted
\* failures hold no Literal("if") expectation.
C5_CutScenario ==
  CutScenario =>
    /\ pc = "returned"
    /\ ~result.success
    /\ ExpectsLiteral(internals.failures[1], Then, 3)
    /\ ExpectsLiteral(Flatten(result.failures), Then, 3)
    /\ ~ExpectsLiteral(Flatten(internals.committedFailures), Then, 3)
    /\ \A at \in 0..Len(input) : ~ExpectsLiteral(internals.failures[1], If, at)

\* The scenario ran: 'if' matched, the action committed, 'then' failed.
C5_Witness ==
  /\ CutScenario
  /\ Len(internals.commits) = 1
  /\ IsNull(match)

\* C6: the Result's failures are the entries of committedFailures in
\* commit order followed by the failures mergeFailures emits for the
\* uncommitted failures: none for an empty list.
C6_ResultFailures ==
  pc = "returned" =>
    LET committed == internals.committedFailures
        merged == mergeFailures(internals.failures[1])
        rest == SubSeq(result.failures, Len(committed) + 1, Len(result.failures))
    IN  /\ IsPrefix(committed, result.failures)
        /\ Len(rest) = Len(merged)
        /\ Flatten(rest) = merged

RECURSIVE MergesSkipOn(_)
\* Some OptionMerge node of the tree sets skip to true.
MergesSkipOn(p) ==
  \/ p.type = "OptionMerge" /\ "skip" \in DOMAIN p.options /\ p.options.skip
  \/ \E q \in SubParsers(p) : MergesSkipOn(q)

RECURSIVE HasReference(_)
HasReference(p) ==
  p.type = "Reference" \/ \E q \in SubParsers(p) : HasReference(q)

RECURSIVE TokenBodies(_)
\* The children of the TokenParser nodes of the tree.
TokenBodies(p) ==
  (IF p.type = "Token" THEN {p.parser} ELSE {})
  \cup UNION {TokenBodies(q) : q \in SubParsers(p)}

\* No token body holds an OptionMerge node that sets skip to true, nor
\* reaches one through a Reference.
NoSkipOnInTokens(p) ==
  \A body \in TokenBodies(p) :
    /\ ~MergesSkipOn(body)
    /\ HasReference(body) => ~MergesSkipOn(p)

\* Every exec that ran inside a token body received skip = false.
SkipOffInTokens ==
  \A k \in 1..Len(internals.calls) :
    internals.calls[k].depth > 1 => ~internals.calls[k].skip

\* C7 as stated: whatever tree is placed under a TokenParser, OptionMerge
\* nodes included, every exec in it receives options.skip = false.
C7_TokenAtomicity_Original == SkipOffInTokens

\* C7, amended: every exec in the subtree of a TokenParser receives
\* options.skip = false, provided no OptionMerge node of that subtree (or
\* of a rule the subtree refers to) sets skip to true.
C7_TokenAtomicity == NoSkipOnInTokens(parser) => SkipOffInTokens

\* A token body with an OptionMerge node in it ran its literals while the
\* parse call was skipping.
C7_Witness ==
  /\ pc = "returned"
  /\ options.skip
  /\ NoSkipOnInTokens(parser)
  /\ \E body \in TokenBodies(parser) : MergesOption(body, "ignoreCase")
  /\ \E k \in 1..Len(internals.calls) :
       internals.calls[k].depth > 1 /\ internals.calls[k].type = "Literal"

\* C8: a TokenParser runs its child so that none of the child's failures
\* reaches the caller's failures; when the child matches, its match is
\* returned and the caller's failures are unchanged; when it fails, exec
\* returns null and exactly one Expectation failure is appended, at the
\* preskipped cursor, with one Token expectation holding the alias and the
\* failures the child accumulated.
C8_TokenFailure ==
  (pc = "returned" /\ parser.type = "Token") =>
    LET ps == preskip(options, NewInternals)
        cursor == ps.cursor
        body == exec(parser.parser, [options EXCEPT !.from = cursor, !.skip = FALSE],
                     NewInternals)
        expectation == [type |-> "TOKEN", alias |-> parser.alias,
                        failures |-> body.internals.failures[1]]
    IN  cursor # NullCursor =>
          IF IsMatch(body.match)
          THEN /\ match = body.match
               /\ internals.failures[1] = ps.internals.failures[1]
          ELSE /\ IsNull(match)
               /\ internals.failures[1]
                    = Append(ps.internals.failures[1],
                             ExpectationFailure(cursor, <<expectation>>))

\* A non-empty string of 'a' characters.
AllAs(w) == w # <<>> /\ \A k \in 1..Len(w) : w[k] = "a"

\* C9: a GrammarParser parsed with the default options resolves every
\* Reference to a declared rule, and x: 'a' x? consumes any input of n >= 1
\* 'a' characters.
C9_NamedRecursion ==
  (pc # "called" /\ parser.type = "Grammar" /\ overrides = NoOverrides) =>
    /\ ~IsThrown(match)
    /\ (parser = RecursiveX /\ AllAs(input)) =>
         (pc = "returned" /\ result.success /\ result.to = Len(input))

\* C10: the match of a resolved Reference has the from, to and value of the
\* referenced rule's match, and the rule's captures with the label bound
\* to the rule's value.
C10_ReferenceCaptures ==
  (/\ pc = "returned"
   /\ parser.type = "Grammar"
   /\ parser.parser.type = "Reference"
   /\ options.grammar.type = "Grammar"
   /\ IsMatch(match)) =>
    LET label == parser.parser.label
        rule == exec(RulesGet(options.grammar.rules, label), options, NewInternals).match
    IN  /\ match.from = rule.from
        /\ match.to = rule.to
        /\ match.value = rule.value
        /\ match.captures = assign(rule.captures, [k \in {label} |-> rule.value])

\* The internals without the history of calls.
Visible(ints) ==
  [warnings |-> ints.warnings, failures |-> ints.failures,
   committedFailures |-> ints.committedFailures]

\* C11: an ActionParser whose child returns null returns null and leaves
\* the internals as the child left them (the action did not run: no warning,
\* no commit); when the child matches and the action raises an Error, exec
\* returns null and exactly one Semantic failure with the child match's
\* from and to and the error's message is appended to internals.failures;
\* when the action throws another value, that value leaves exec and no
\* failure is recorded; when the action returns, the match is the child's
\* with the action's return value as value.
C11_ActionErrors ==
  (pc # "called" /\ parser.type = "Action") =>
    LET child == exec(parser.parser, options, NewInternals)
        action == parser.action
        called == CallHooks(action.hooks, child.match, child.internals)
    IN  IF ~IsMatch(child.match)
        THEN /\ match = child.match
             /\ Visible(internals) = Visible(child.internals)
             /\ internals.commits = child.internals.commits
        ELSE CASE action.outcome = "return" ->
                    /\ IsMatch(match)
                    /\ match.from = child.match.from
                    /\ match.to = child.match.to
                    /\ match.captures = child.match.captures
                    /\ match.value = action.value
                    /\ internals.failures = called.failures
               [] action.outcome = "error" ->
                    /\ IsNull(match)
                    /\ Failures(internals)
                         = Append(Failures(called),
                                  [from |-> child.match.from, to |-> child.match.to,
                                   type |-> "SEMANTIC", message |-> action.value])
               [] action.outcome = "throw" ->
                    /\ match = Thrown(action.value)
                    /\ pc = "threw"
                    /\ internals.failures = called.failures

\* An action raised an Error after its child matched "ab" behind a skipped
\* space: the parse failed with one Semantic failure over [1, 3).
C11_Witness ==
  /\ pc = "returned"
  /\ parser.type = "Action"
  /\ parser.action.outcome = "error"
  /\ IsNull(match)
  /\ internals.failures[1]
       = <<SemanticFailure(1, 3, StringValue(<<"m">>))>>

LowerMap == [A |-> "a", B |-> "b", C |-> "c", S |-> "s"]

\* The case-folded form of a string: lower case, the sharp s as "ss".
CaseFold(w) ==
  LET fold(ch) == IF ch = SharpS THEN <<"s", "s">>
                  ELSE IF ch \in DOMAIN LowerMap THEN <<LowerMap[ch]>> ELSE <<ch>>
      F[k \in 0..Len(w)] == IF k = 0 THEN <<>> ELSE F[k - 1] \o fold(w[k])
  IN  F[Len(w)]

\* The cursor preskip hands the parser of the parse call.
StartCursor == preskip(options, NewInternals)

\* The input characters at the cursor c, at most n of them.
Window(c, n) == SubSeq(input, c + 1, Min2(c + n, Len(input)))

\* What a LiteralParser did at the cursor: matched [c, c + |literal|) with
\* the value given when it emits, and the Result's raw is the input text; or
\* returned null and recorded one Expectation(Literal) failure at [c, c).
LiteralOutcome(c, same, value) ==
  IF same
  THEN /\ IsMatch(match)
       /\ match.from = c
       /\ match.to = c + Len(parser.literal)
       /\ match.value = (IF parser.emit THEN value ELSE Undefined)
       /\ result.raw = Window(c, Len(parser.literal))
       /\ internals.failures = StartCursor.internals.failures
  ELSE /\ IsNull(match)
       /\ internals.failures[1]
            = Append(StartCursor.internals.failures[1],
                     [from |-> c, to |-> c, type |-> "EXPECTATION",
                      expected |-> <<[type |-> "LITERAL", literal |-> parser.literal]>>])

RECURSIVE HasEmptyOption(_)
\* Some OptionParser of the tree has no alternative.
HasEmptyOption(p) ==
  \/ p.type = "Option" /\ p.parsers = <<>>
  \/ \E q \in SubParsers(p) : HasEmptyOption(q)

\* A failed parse reports at least one failure, and every exec that
\* returned null pushed a failure, itself or through a parser it ran.
Diagnosed ==
  /\ (pc = "returned" /\ ~result.success) => Flatten(result.failures) # <<>>
  /\ \A k \in 1..Len(internals.calls) :
       IsNull(internals.calls[k].match) =>
         internals.calls[k].pushedAfter > internals.calls[k].pushedBefore

\* C13 as stated: for every grammar and input, the failures of a Result
\* with success = false hold at least one failure; every exec that returns
\* null has caused at least one failure to be recorded.
C13_NonEmptyDiagnostics_Original == Diagnosed

\* C13, amended: the same for every grammar whose OptionParsers all have at
\* least one alternative.
C13_NonEmptyDiagnostics == ~HasEmptyOption(parser) => Diagnosed

\* A choice whose two alternatives both failed at cursor 1: the failed
\* Result reports failures, after three exec calls that returned null.
C13_Witness ==
  /\ pc = "returned"
  /\ parser = OptionParser(<<StartEdgeParser, B>>)
  /\ options.from = 1
  /\ ~result.success
  /\ Flatten(result.failures) # <<>>
  /\ Len(internals.calls) >= 3
  /\ \A k \in 1..3 : IsNull(internals.calls[k].match)

\* The parser of the parse call under its OptionMerge node, if it has one,
\* and the options that parser receives.
Wrapped == IF parser.type = "OptionMerge" THEN 1 ELSE 0
Inner == IF Wrapped = 1 THEN parser.parser ELSE parser
InnerOptions == IF Wrapped = 1 THEN Spread(options, parser.options) ELSE options

\* The parser matched as it does unskipped from the cursor c, after the
\* first n exec calls: a token ran its body from c, a terminal ran nothing.
StartsAt(c, n) ==
  LET calls == internals.calls
      own == Len(calls) - Wrapped
  IN  /\ match = exec(Inner, [InnerOptions EXCEPT !.from = c, !.skip = FALSE],
                      NewInternals).match
      /\ IsMatch(match) /\ Inner.type # "Token" => match.from = c
      /\ IF Inner.type = "Token"
         THEN calls[own - 1].type = Inner.parser.type /\ calls[own - 1].from = c
         ELSE own = n + 1

\* The skipping policy for the parser of the parse call.
SkippingPolicy ==
  LET o == InnerOptions
      calls == internals.calls
      sk == exec(o.skipper, [o EXCEPT !.skip = FALSE], NewInternals)
      n == Len(sk.internals.calls)
  IN  IF ~o.skip THEN StartsAt(o.from, 0)
      ELSE /\ SubSeq(calls, 1, n) = sk.internals.calls
           /\ calls[n].from = o.from /\ ~calls[n].skip
           /\ IF IsMatch(sk.match) THEN StartsAt(sk.match.to, n)
              ELSE /\ match = sk.match
                   /\ Len(calls) = n + 1 + Wrapped
                   /\ internals.failures = sk.internals.failures

\* C14: Literal, RegExp, EndEdge and Token match from the cursor preskip
\* returns: options.from when options.skip is false, else the end of the
\* match of options.skipper run at options.from with skip false; when the
\* skipper returns null they return null without matching; StartEdge never
\* runs the skipper.  'a' 'b' on " ab " succeeds with [1, 3) and 'a' on
\* "a a" with [0, 1).
C14_SkippingPolicy ==
  pc # "called" =>
    /\ Inner.type \in {"Literal", "RegExp", "EndEdge", "Token"} => SkippingPolicy
    /\ parser.type = "StartEdge" => Len(internals.calls) = 1
    /\ (parser = AB /\ input = <<" ", "a", "b", " ">> /\ overrides = NoOverrides) =>
         (IsMatch(match) /\ match.from = 1 /\ match.to = 3)
    /\ (parser = LiteralParser(<<"a">>, FALSE) /\ input = <<"a", " ", "a">>
          /\ overrides = NoOverrides) =>
         (IsMatch(match) /\ match.from = 0 /\ match.to = 1)

\* EndEdge behind trailing white space: the skipper ran first, with skip
\* off, and the edge matched at the cursor it returned.
C14_Witness ==
  /\ pc = "returned"
  /\ parser = EndEdgeParser
  /\ options.skip
  /\ input = <<"a", " ", " ">>
  /\ options.from = 1
  /\ Len(internals.calls) = 2
  /\ internals.calls[1].type = "RegExp"
  /\ ~internals.calls[1].skip
  /\ IsMatch(match)
  /\ match.from = 3

\* The values of a, b and c in the value [[a, b], c] of the left grouping
\* and in the value [a, [b, c]] of the right grouping, undefined ones left
\* out: the inner sequence's array opened, the other values as they are.
LeftValues(v) == v.items[1].items \o Tail(v.items)
RightValues(v) == SubSeq(v.items, 1, Len(v.items) - 1) \o v.items[Len(v.items)].items

\* The parser of the parse call is Sequence(Sequence(a, b), c).
IsLeftSequence ==
  /\ parser.type = "Sequence"
  /\ Len(parser.parsers) = 2
  /\ parser.parsers[1].type = "Sequence"
  /\ Len(parser.parsers[1].parsers) = 2

RECURSIVE Closings(_)
\* The Match and Fail events of an event stream, in order.
Closings(events) ==
  IF events = <<>> THEN <<>>
  ELSE (IF Head(events).event = "ENTER" THEN <<>> ELSE <<Head(events)>>)
       \o Closings(Tail(events))

\* Every prefix of the stream has at least as many Enter events as closing
\* ones, and the whole stream as many of each.
WellNested(events) ==
  /\ \A n \in 1..Len(events) : 2 * Len(Closings(SubSeq(events, 1, n))) <= n
  /\ 2 * Len(Closings(events)) = Len(events)

\* C16: with options.tracer provided, every exec emits an Enter event
\* before the events of its children and one closing event after them,
\* Match with the returned match when it returns a match and Fail when it
\* returns null: the stream is well nested and its closing events are those
\* of the exec calls in the order they returned.
C16_TracerProtocol ==
  (pc = "returned" /\ "tracer" \in DOMAIN options) =>
    LET events == internals.events
        closings == Closings(events)
        calls == internals.calls
    IN  /\ WellNested(events)
        /\ Len(closings) = Len(calls)
        /\ \A k \in 1..Len(calls) :
             IF IsMatch(calls[k].match)
             THEN closings[k].event = "MATCH" /\ closings[k].match = calls[k].match
             ELSE closings[k].event = "FAIL"

RECURSIVE HasType(_, _)
\* Some node of the tree is a parser of the type.
HasType(p, type) == p.type = type \/ \E q \in SubParsers(p) : HasType(q, type)

\* The exec calls of the child of the repetition p can be told from all
\* other calls by their type: no parser under the child, and no skipper,
\* has the child's type.
ChildCallsVisible(p) ==
  /\ \A q \in SubParsers(p.parser) : ~HasType(q, p.parser.type)
  /\ options.skipper.type # p.parser.type

\* How many times the repetition of the parse call invoked its child.
Invocations ==
  Cardinality({k \in 1..Len(internals.calls) :
                 internals.calls[k].type = parser.parser.type})

\* The successful child matches of the repetition, as far as MaxIter.
Successes == Chain(parser.parser, options.from, MaxIter)

\* Every successful child match consumes at least one character.
Consuming == \A k \in 1..Len(Successes) : Successes[k].to > Successes[k].from

\* Every successful child match ends beyond the cursor the child was
\* invoked at.
Advancing ==
  \A k \in 1..Len(Successes) :
    Successes[k].to > (IF k = 1 THEN options.from ELSE Successes[k - 1].to)

\* The loop stopped at the first child failure or when the count of
\* successful child matches reached max.
StopsAtFailureOrMax ==
  /\ IsMatch(match) =>
       \/ Len(match.value.items) = parser.max /\ Invocations = parser.max
       \/ Invocations = Len(match.value.items) + 1
  /\ IsNull(match) => Invocations = Len(Successes) + 1

====
